---- MODULE Spec2Model ----
(***************************************************************************)
(* A model of chebyshev.py: the polynomial primitives (poly_eval,          *)
(* linear_combination), the Chebyshev generator, the generalized Clenshaw  *)
(* evaluator and the cheb_eval facade.                                     *)
(*                                                                         *)
(* A Python list l is the sequence s with l[i] = s[i + 1].  All numbers    *)
(* are Python ints (unbounded); the bounds below keep every intermediate   *)
(* value far inside TLC's integer range.                                   *)
(***************************************************************************)
EXTENDS Integers, Sequences, FiniteSets, TLC

\* ---------------------------------------------------------------- bounds
MaxLen == 3         \* longest coefficient vector / polynomial passed in
MaxCoef == 1        \* coefficients are drawn from -MaxCoef..MaxCoef
MaxX == 2           \* evaluation points are drawn from -MaxX..MaxX
MaxCount == 6       \* largest count passed to the generator
MaxPolys == 2       \* longest list handed to linear_combination
MaxPolyLen == 2     \* longest polynomial in such a list

Max(a, c) == IF a >= c THEN a ELSE c
Min(a, c) == IF a <= c THEN a ELSE c

SeqsUpTo(S, n) == UNION {[1..m -> S] : m \in 0..n}

Coef == (0 - MaxCoef)..MaxCoef
Points == (0 - MaxX)..MaxX
CoefVectors == SeqsUpTo(Coef, MaxLen)
Counts == (0 - 1)..MaxCount

\* The scalars linear_combination is exercised with, as coefficients of
\* its polynomials and as weights.
LcCoef == {-1, 2}
PolyLists == SeqsUpTo(SeqsUpTo(LcCoef, MaxPolyLen), MaxPolys)
WeightLists == SeqsUpTo(LcCoef, MaxPolys)

\* The polynomials recurrence descriptors are built from: the empty
\* polynomial, constants and polynomials of degree one.  They include the
\* monomial family (1, x, alpha = x, beta = 0) and the family cheb_eval
\* uses (1, 2x, alpha = 2x, beta = -1).
Basis0Polys == {<<>>, <<1>>, <<1, 1>>}
Basis1Polys == {<<-1>>, <<0, 1>>, <<0, 2>>}
AlphaPolys == {<<>>, <<0, 1>>, <<0, 2>>, <<1, 1>>}
BetaPolys == {<<0>>, <<1>>, <<-1>>, <<0, 1>>}

\* ------------------------------------------------------- pure functions

\* s[i] for a 1-based index, 0 past either end (zip_longest's fillvalue).
Get(s, i) == IF i >= 1 /\ i <= Len(s) THEN s[i] ELSE 0

\* Python's sum() over a list.
RECURSIVE sum(_)
sum(s) == IF Len(s) = 0 THEN 0 ELSE s[1] + sum(Tail(s))

\* Length of the longest list among ps (0 for no lists).
RECURSIVE longest(_)
longest(ps) == IF Len(ps) = 0 THEN 0 ELSE Max(Len(ps[1]), longest(Tail(ps)))

\* Length of the shortest list among ps (0 for no lists).
RECURSIVE shortest(_)
shortest(ps) ==
  IF Len(ps) = 0 THEN 0
  ELSE IF Len(ps) = 1 THEN Len(ps[1])
  ELSE Min(Len(ps[1]), shortest(Tail(ps)))

zip_longest_mut(ps) ==
  [i \in 1..shortest(ps) |-> [j \in 1..Len(ps) |-> Get(ps[j], i)]]

\* zip_longest(*polys, fillvalue=0): one tuple per degree index, holding
\* that coefficient of every polynomial, 0 where a polynomial has ended.
zip_longest(ps) ==
  [i \in 1..longest(ps) |-> [j \in 1..Len(ps) |-> Get(ps[j], i)]]

\* [c * x for (c, x) in zip(weights, coeffs)]: zip stops at the shorter.
zip_products(ws, coeffs) ==
  [j \in 1..Min(Len(ws), Len(coeffs)) |-> ws[j] * coeffs[j]]

linear_combination_mut(ps, ws) ==
  [raised |-> "None",
   value |-> [i \in 1..Len(zip_longest(ps)) |->
                 sum(zip_products(ws, zip_longest(ps)[i]))]]

\* linear_combination: the assertion, then the list comprehension.
linear_combination(ps, ws) ==
  IF Len(ws) # Len(ps)
  THEN [raised |-> "AssertionError", value |-> <<>>]
  ELSE [raised |-> "None",
        value |-> [i \in 1..Len(zip_longest(ps)) |->
                      sum(zip_products(ws, zip_longest(ps)[i]))]]

x_k_minus_1_mut(prev) == prev

\* x_k_minus_1 = [0] + polynomials[-1]
x_k_minus_1(prev) == <<0>> \o prev

next_polynomial_mut(xk1, k2) ==
  [i \in 1..Max(Len(xk1), Len(k2)) |-> 2 * Get(xk1, i) + Get(k2, i)]

\* [2 * x - y for (x, y) in zip_longest(x_k_minus_1, k_minus_2, fillvalue=0)]
next_polynomial(xk1, k2) ==
  [i \in 1..Max(Len(xk1), Len(k2)) |-> 2 * Get(xk1, i) - Get(k2, i)]

\* for i in range(2, count): polynomials.append(next_polynomial)
RECURSIVE generate_loop(_, _, _)
generate_loop(polynomials, i, cnt) ==
  IF i >= cnt THEN polynomials
  ELSE generate_loop(
         Append(polynomials,
                next_polynomial(x_k_minus_1(polynomials[Len(polynomials)]),
                                polynomials[Len(polynomials) - 1])),
         i + 1, cnt)

generate_chebyshev_polynomials_mut(cnt) ==
  IF cnt < 1 THEN <<>>
  ELSE IF cnt <= 2 THEN << <<1>>, <<0, 2>> >>
  ELSE generate_loop(<< <<1>>, <<0, 2>> >>, 2, cnt)

generate_chebyshev_polynomials(cnt) ==
  IF cnt < 1 THEN <<>>
  ELSE IF cnt <= 2 THEN SubSeq(<< <<1>>, <<0, 2>> >>, 1, cnt)
  ELSE generate_loop(<< <<1>>, <<0, 2>> >>, 2, cnt)

\* for c in reversed(poly): acc = acc * x + c, from position i downwards.
RECURSIVE horner(_, _, _, _)
horner(p, v, i, acc) ==
  IF i = 0 THEN acc ELSE horner(p, v, i - 1, acc * v + p[i])

RECURSIVE horner_forward(_, _, _, _)
horner_forward(p, v, i, acc) ==
  IF i > Len(p) THEN acc ELSE horner_forward(p, v, i + 1, acc * v + p[i])

poly_eval_mut(p, v) == horner_forward(p, v, 1, 0)

poly_eval(p, v) == horner(p, v, Len(p), 0)

\* coefficients[1:]
slice_from_1(s) == IF Len(s) = 0 THEN <<>> ELSE Tail(s)

clenshaw_step_mut(c, bb, ax, bx) == <<c + ax * bb[1] + bx * bb[2], bb[2]>>

\* b_k = c + alpha_x * b[0] + beta_x * b[1]; b = (b_k, b[0])
clenshaw_step(c, bb, ax, bx) == <<c + ax * bb[1] + bx * bb[2], bb[1]>>

clenshaw_return_mut(b0x, b1x, bx, c0, bb) ==
  b0x * c0 + b1x * bb[1] + b0x * bb[2]

\* basis_0_x * coefficients[0] + basis_1_x * b[0] + beta_x * basis_0_x * b[1]
clenshaw_return(b0x, b1x, bx, c0, bb) ==
  b0x * c0 + b1x * bb[1] + bx * b0x * bb[2]

cheb_beta_mut == <<1>>

\* The recurrence coefficients cheb_eval hard-wires.
cheb_alpha == <<0, 2>>
cheb_beta == <<-1>>

\* ---------------------------------------------------------------- state
VARIABLES
  pc,            \* "idle", "entry", "clenshaw_entry", "clenshaw_loop", "done"
  op,            \* the function the caller invoked
  polys, weights,                          \* linear_combination's arguments
  count,                                   \* the generator's argument
  poly, x,                                 \* poly_eval's / cheb_eval's arguments
  coefficients, value,                     \* clenshaw_eval's arguments
  basis_0, basis_1, alpha, beta,
  alpha_x, beta_x, basis_0_x, basis_1_x,   \* clenshaw_eval's locals
  b,                                       \* the rolling pair
  remaining,     \* the part of coefficients[1:] the loop has yet to consume
  result,        \* the value returned
  raised         \* the exception raised, "None" when there is none

vars == <<pc, op, polys, weights, count, poly, x, coefficients, value,
          basis_0, basis_1, alpha, beta, alpha_x, beta_x, basis_0_x,
          basis_1_x, b, remaining, result, raised>>

args == <<polys, weights, count, poly, x, coefficients>>
descriptor == <<value, basis_0, basis_1, alpha, beta>>
locals == <<alpha_x, beta_x, basis_0_x, basis_1_x, b, remaining>>

Init ==
  /\ pc = "idle"
  /\ op = "None"
  /\ polys = <<>> /\ weights = <<>>
  /\ count = 0
  /\ poly = <<>> /\ x = 0
  /\ coefficients = <<>> /\ value = 0
  /\ basis_0 = <<>> /\ basis_1 = <<>> /\ alpha = <<>> /\ beta = <<>>
  /\ alpha_x = 0 /\ beta_x = 0 /\ basis_0_x = 0 /\ basis_1_x = 0
  /\ b = <<0, 0>>
  /\ remaining = <<>>
  /\ result = <<>>
  /\ raised = "None"

\* -------------------------------------------------------------- callers

Call_linear_combination ==
  /\ pc = "idle"
  /\ \E ps \in PolyLists, ws \in WeightLists :
       /\ polys' = ps
       /\ weights' = ws
  /\ op' = "linear_combination"
  /\ pc' = "entry"
  /\ UNCHANGED <<count, poly, x, coefficients, descriptor, locals,
                 result, raised>>

Call_generate_chebyshev_polynomials ==
  /\ pc = "idle"
  /\ \E n \in Counts : count' = n
  /\ op' = "generate_chebyshev_polynomials"
  /\ pc' = "entry"
  /\ UNCHANGED <<polys, weights, poly, x, coefficients, descriptor, locals,
                 result, raised>>

Call_poly_eval ==
  /\ pc = "idle"
  /\ \E p \in CoefVectors, v \in Points :
       /\ poly' = p
       /\ x' = v
  /\ op' = "poly_eval"
  /\ pc' = "entry"
  /\ UNCHANGED <<polys, weights, count, coefficients, descriptor, locals,
                 result, raised>>

Call_clenshaw_eval ==
  /\ pc = "idle"
  /\ \E c \in CoefVectors, v \in Points,
        t0 \in Basis0Polys, t1 \in Basis1Polys,
        al \in AlphaPolys, be \in BetaPolys :
       /\ coefficients' = c
       /\ value' = v
       /\ basis_0' = t0
       /\ basis_1' = t1
       /\ alpha' = al
       /\ beta' = be
  /\ op' = "clenshaw_eval"
  /\ pc' = "clenshaw_entry"
  /\ UNCHANGED <<polys, weights, count, poly, x, locals, result, raised>>

Call_cheb_eval ==
  /\ pc = "idle"
  /\ \E c \in CoefVectors, v \in Points :
       /\ coefficients' = c
       /\ x' = v
  /\ op' = "cheb_eval"
  /\ pc' = "entry"
  /\ UNCHANGED <<polys, weights, count, poly, descriptor, locals,
                 result, raised>>

\* ------------------------------------------------------------ functions

linear_combination_body ==
  /\ pc = "entry" /\ op = "linear_combination"
  /\ raised' = linear_combination(polys, weights).raised
  /\ result' = linear_combination(polys, weights).value
  /\ pc' = "done"
  /\ UNCHANGED <<op, args, descriptor, locals>>

generate_chebyshev_polynomials_body ==
  /\ pc = "entry" /\ op = "generate_chebyshev_polynomials"
  /\ result' = generate_chebyshev_polynomials(count)
  /\ pc' = "done"
  /\ UNCHANGED <<op, args, descriptor, locals, raised>>

poly_eval_body ==
  /\ pc = "entry" /\ op = "poly_eval"
  /\ result' = poly_eval(poly, x)
  /\ pc' = "done"
  /\ UNCHANGED <<op, args, descriptor, locals, raised>>

\* cheb_eval: build the Chebyshev descriptor and enter clenshaw_eval.
cheb_eval_body ==
  /\ pc = "entry" /\ op = "cheb_eval"
  /\ basis_0' = generate_chebyshev_polynomials(2)[1]
  /\ basis_1' = generate_chebyshev_polynomials(2)[2]
  /\ alpha' = cheb_alpha
  /\ beta' = cheb_beta
  /\ value' = x
  /\ pc' = "clenshaw_entry"
  /\ UNCHANGED <<op, args, locals, result, raised>>

\* clenshaw_eval up to the loop: the four evaluations and b = (0, 0).
clenshaw_eval_begin ==
  /\ pc = "clenshaw_entry"
  /\ alpha_x' = poly_eval(alpha, value)
  /\ beta_x' = poly_eval(beta, value)
  /\ basis_0_x' = poly_eval(basis_0, value)
  /\ basis_1_x' = poly_eval(basis_1, value)
  /\ b' = <<0, 0>>
  /\ remaining' = slice_from_1(coefficients)
  /\ pc' = "clenshaw_loop"
  /\ UNCHANGED <<op, args, descriptor, result, raised>>

\* One iteration of `for c in reversed(coefficients[1:])`.
clenshaw_eval_iterate ==
  /\ pc = "clenshaw_loop"
  /\ Len(remaining) > 0
  /\ b' = clenshaw_step(remaining[Len(remaining)], b, alpha_x, beta_x)
  /\ remaining' = SubSeq(remaining, 1, Len(remaining) - 1)
  /\ UNCHANGED <<pc, op, args, descriptor, alpha_x, beta_x, basis_0_x,
                 basis_1_x, result, raised>>

\* The return expression; coefficients[0] raises IndexError on an empty list.
clenshaw_eval_return ==
  /\ pc = "clenshaw_loop"
  /\ Len(remaining) = 0
  /\ IF Len(coefficients) = 0
     THEN /\ raised' = "IndexError"
          /\ UNCHANGED result
     ELSE /\ result' = clenshaw_return(basis_0_x, basis_1_x, beta_x,
                                       coefficients[1], b)
          /\ UNCHANGED raised
  /\ pc' = "done"
  /\ UNCHANGED <<op, args, descriptor, locals>>

Next ==
  \/ Call_linear_combination
  \/ Call_generate_chebyshev_polynomials
  \/ Call_poly_eval
  \/ Call_clenshaw_eval
  \/ Call_cheb_eval
  \/ linear_combination_body
  \/ generate_chebyshev_polynomials_body
  \/ poly_eval_body
  \/ cheb_eval_body
  \/ clenshaw_eval_begin
  \/ clenshaw_eval_iterate
  \/ clenshaw_eval_return

Spec == Init /\ [][Next]_vars

\* ------------------------------------------------- reference definitions

Returned(f) == pc = "done" /\ op = f
ClenshawReturned == pc = "done" /\ op \in {"clenshaw_eval", "cheb_eval"}

RECURSIVE Pow(_, _)
Pow(v, n) == IF n = 0 THEN 1 ELSE v * Pow(v, n - 1)

\* p[0] * v**0 + ... + p[n-1] * v**(n-1)
RECURSIVE DirectSum(_, _, _)
DirectSum(p, v, n) ==
  IF n = 0 THEN 0 ELSE DirectSum(p, v, n - 1) + p[n] * Pow(v, n - 1)

\* T_k(value) of the family the current descriptor defines.
RECURSIVE BasisValue(_)
BasisValue(k) ==
  IF k = 0 THEN DirectSum(basis_0, value, Len(basis_0))
  ELSE IF k = 1 THEN DirectSum(basis_1, value, Len(basis_1))
  ELSE DirectSum(alpha, value, Len(alpha)) * BasisValue(k - 1)
       + DirectSum(beta, value, Len(beta)) * BasisValue(k - 2)

\* c_0 * T_0(value) + ... + c_{n-1} * T_{n-1}(value)
RECURSIVE SeriesSum(_)
SeriesSum(n) ==
  IF n = 0 THEN 0
  ELSE SeriesSum(n - 1) + coefficients[n] * BasisValue(n - 1)

\* b_k of the backward recurrence, with b_k = 0 for k >= n.
RECURSIVE BackwardB(_)
BackwardB(k) ==
  IF k >= Len(coefficients) THEN 0
  ELSE coefficients[k + 1] + alpha_x * BackwardB(k + 1)
                           + beta_x * BackwardB(k + 2)

\* sum over j < n of weights[j] * polys[j][i], 0 past the end of polys[j].
RECURSIVE WeightedCoefSum(_, _)
WeightedCoefSum(i, n) ==
  IF n = 0 THEN 0
  ELSE WeightedCoefSum(i, n - 1)
       + weights[n] * (IF i <= Len(polys[n]) THEN polys[n][i] ELSE 0)

LongestLen ==
  LET lens == {Len(polys[j]) : j \in 1..Len(polys)} \cup {0}
  IN CHOOSE m \in lens : \A n \in lens : m >= n

TrivialDescriptor ==
  /\ basis_0 = <<1>>
  /\ basis_1 = <<0, 1>>
  /\ alpha = <<0, 1>>
  /\ beta = <<0>>

\* ----------------------------------------------------------------- claims

\* C1: for a non-empty coefficient vector, cheb_eval(c, x) returns exactly
\* poly_eval(linear_combination(generate_chebyshev_polynomials(len(c)), c), x).
C1_ChebEvalMatchesExpansion ==
  (Returned("cheb_eval") /\ Len(coefficients) >= 1) =>
     /\ raised = "None"
     /\ result =
          poly_eval(
            linear_combination(
              generate_chebyshev_polynomials(Len(coefficients)),
              coefficients).value,
            x)

C1_Witness ==
  /\ Returned("cheb_eval")
  /\ coefficients = <<1, -1, 1>>
  /\ x = 2
  /\ result = 12

\* C2: for a non-empty coefficient vector, clenshaw_eval returns
\* sum_k c_k * T_k(x) for the family T_0 = basis_0, T_1 = basis_1,
\* T_k = alpha * T_{k-1} + beta * T_{k-2}; with the trivial descriptor that
\* is poly_eval(c, x).
C2_ClenshawComputesSeries ==
  (ClenshawReturned /\ Len(coefficients) >= 1) =>
     /\ raised = "None"
     /\ result = SeriesSum(Len(coefficients))
     /\ TrivialDescriptor => result = poly_eval(coefficients, value)

C2_Witness ==
  /\ Returned("clenshaw_eval")
  /\ basis_0 = <<1, 1>>
  /\ basis_1 = <<0, 2>>
  /\ alpha = <<1, 1>>
  /\ beta = <<0, 1>>
  /\ coefficients = <<1, 1, 1>>
  /\ value = 2
  /\ result = 25

\* C3: generate_chebyshev_polynomials(N) returns exactly N polynomials
\* (none for N <= 0), and its k-th polynomial is the k-th polynomial of
\* generate_chebyshev_polynomials(N + 1).
C3_CountAndPrefixStability ==
  Returned("generate_chebyshev_polynomials") =>
     /\ Len(result) = Max(count, 0)
     /\ count <= 0 => result = <<>>
     /\ Len(generate_chebyshev_polynomials(count + 1)) = Max(count + 1, 0)
     /\ \A k \in 1..Len(result) :
          result[k] = generate_chebyshev_polynomials(count + 1)[k]

C3_Witness ==
  /\ Returned("generate_chebyshev_polynomials")
  /\ count = 3
  /\ Len(result) = 3
  /\ result[3] = <<-1, 0, 4>>

\* C4: T_0 = [1], T_1 = [0, 2], T_k[i] = 2 * T_{k-1}[i-1] - T_{k-2}[i] for
\* 2 <= k < N with missing indices read as 0, and the result for N = 5 is
\* [[1], [0,2], [-1,0,4], [0,-4,0,8], [1,0,-12,0,16]].
C4_SeedsAndRecurrence ==
  Returned("generate_chebyshev_polynomials") =>
     /\ count >= 1 => result[1] = <<1>>
     /\ count >= 2 => result[2] = <<0, 2>>
     /\ \A k \in 2..(count - 1) : \A i \in 0..(MaxCount + 1) :
          Get(result[k + 1], i + 1)
            = 2 * Get(result[k], i) - Get(result[k - 1], i + 1)
     /\ count = 5 =>
          result = << <<1>>, <<0, 2>>, <<-1, 0, 4>>, <<0, -4, 0, 8>>,
                      <<1, 0, -12, 0, 16>> >>

C4_Witness ==
  /\ Returned("generate_chebyshev_polynomials")
  /\ count = 5
  /\ result[5] = <<1, 0, -12, 0, 16>>

\* C5: poly_eval(P, x) equals the direct sum of P[i] * x**i.
C5_HornerEqualsDirectSum ==
  Returned("poly_eval") => result = DirectSum(poly, x, Len(poly))

C5_Witness ==
  /\ Returned("poly_eval")
  /\ poly = <<1, 0, -1>>
  /\ x = 2
  /\ result = -3

\* C6: for equally long lists, linear_combination returns a polynomial as
\* long as the longest input polynomial whose coefficient at index i is
\* sum_j weights[j] * polys[j][i], with 0 past the end of polys[j].
C6_LinearCombinationCoefficients ==
  (Returned("linear_combination") /\ Len(polys) = Len(weights)) =>
     /\ raised = "None"
     /\ Len(result) = LongestLen
     /\ \A i \in 1..Len(result) : result[i] = WeightedCoefSum(i, Len(polys))

C6_Witness ==
  /\ Returned("linear_combination")
  /\ polys = << <<2>>, <<-1, 2>> >>
  /\ weights = <<2, -1>>
  /\ result = <<5, -2>>

\* C7: clenshaw_eval (and so cheb_eval) returns a value, raising nothing,
\* for coefficient vectors of length 0 and 1; for length 1 the loop body
\* never runs and the result is T_0(x) * c_0.
C7_ShortVectorsReturn ==
  (ClenshawReturned /\ Len(coefficients) <= 1) =>
     /\ raised = "None"
     /\ b = <<0, 0>>
     /\ Len(coefficients) = 1 => result = basis_0_x * coefficients[1]

\* C8: with lists of different lengths linear_combination raises before
\* computing anything: nothing is returned and the inputs are unchanged.
C8_LengthMismatchRaises ==
  [][(pc = "entry" /\ op = "linear_combination"
        /\ Len(polys) # Len(weights)) =>
       /\ pc' = "done"
       /\ raised' = "AssertionError"
       /\ result' = result
       /\ polys' = polys
       /\ weights' = weights]_vars

C8_Witness ==
  /\ Returned("linear_combination")
  /\ polys = << <<2>>, <<-1, 2>> >>
  /\ weights = <<2>>
  /\ raised = "AssertionError"
  /\ result = <<>>

\* C9: every T_k returned has exactly k + 1 coefficients and its last
\* coefficient is 2^k, so no polynomial ends in a zero.
C9_NoTrailingZeros ==
  Returned("generate_chebyshev_polynomials") =>
     \A k \in 1..Len(result) :
        /\ Len(result[k]) = k
        /\ result[k][k] = Pow(2, k - 1)
        /\ result[k][k] # 0

C9_Witness ==
  /\ Returned("generate_chebyshev_polynomials")
  /\ count = 6
  /\ Len(result[6]) = 6
  /\ result[6][6] = 32

====
